---- MODULE Spec2Model ----
(***************************************************************************)
(* mini-block (src/src/main.rs): a single-process, append-only chain of    *)
(* mined blocks with a JSON snapshot and an interactive command loop.      *)
(*                                                                         *)
(* Text is a sequence of one-character strings, so that to_string, the     *)
(* concatenation fed to the hasher, starts_with and the JSON leaves are    *)
(* computed character by character.                                        *)
(***************************************************************************)
EXTENDS Integers, Sequences, FiniteSets

(***************************************************************************)
(* Bounds of the model.                                                    *)
(***************************************************************************)
\* longest chain the command loop is allowed to build
MaxBlocks == 3
\* largest DIFFICULTY tried besides the one of main.rs:7
MaxDifficulty == 2
\* u64::MAX, scaled: the largest value of Block::index and Block::nonce
U64Max == 40
\* u32::MAX, scaled: the largest Transaction::amount
U32Max == 20
\* u128::MAX, scaled: the largest Block::timestamp
U128Max == 99
\* last reading the wall clock gives (milliseconds since the epoch)
MaxClock == 10

\* first reading of the wall clock
ClockStart == MaxClock - 1

\* const DIFFICULTY: the number of leading '0' characters mining asks for
DIFFICULTY == 4

\* the values of DIFFICULTY the program is built with: the one of the source
\* and the small ones, 0 (no mining) included, at which the scaled digest
\* lets mining succeed
Difficulties == (0..MaxDifficulty) \cup {DIFFICULTY}

(***************************************************************************)
(* Text.                                                                   *)
(***************************************************************************)
Digits == <<"0", "1", "2", "3", "4", "5", "6", "7", "8", "9">>

HexDigits == Digits \o <<"a", "b", "c", "d", "e", "f">>

\* the characters that occur in the model, in byte order of their first use
Alphabet == HexDigits \o <<"\"", "\\", "x", "-", "+">>

Chars == { Alphabet[i] : i \in 1..Len(Alphabet) }

\* the byte value of a character, as its place in Alphabet
CharCode == [c \in Chars |-> CHOOSE i \in 1..Len(Alphabet) : Alphabet[i] = c]

IsDigit(c) == \E i \in 1..Len(Digits) : Digits[i] = c

DigitVal(c) == CharCode[c] - 1

RECURSIVE ToString(_)
\* u32/u64/u128 to_string(): decimal, no sign, no leading zeros
ToString(n) ==
  IF n < 10 THEN <<Digits[n + 1]>>
  ELSE Append(ToString(n \div 10), Digits[(n % 10) + 1])

\* a starts_with that does not take the empty text for a prefix
StartsWith_NonEmpty(s, p) == p # <<>> /\ Len(s) >= Len(p) /\ SubSeq(s, 1, Len(p)) = p

\* str::starts_with
StartsWith(s, p) == Len(s) >= Len(p) /\ SubSeq(s, 1, Len(p)) = p

\* "0".repeat(n)
Repeat0(n) == [i \in 1..n |-> "0"]

RECURSIVE ParseDigits(_, _, _)
\* accumulates decimal digits into a value; max + 1 stands for "overflowed"
ParseDigits(s, acc, max) ==
  IF s = <<>> THEN acc
  ELSE LET v == acc * 10 + DigitVal(Head(s))
       IN ParseDigits(Tail(s), IF v > max THEN max + 1 ELSE v, max)

AllDigits(s) == \A i \in 1..Len(s) : IsDigit(s[i])

\* str::parse::<u32>(): an optional '+', then one or more digits, in range
ParseU32(tok) ==
  LET body == IF tok # <<>> /\ Head(tok) = "+" THEN Tail(tok) ELSE tok
      okay == body # <<>> /\ AllDigits(body) /\ ParseDigits(body, 0, U32Max) <= U32Max
  IN [ok |-> okay, val |-> IF okay THEN ParseDigits(body, 0, U32Max) ELSE 0]

(***************************************************************************)
(* Block::calculate_hash.                                                  *)
(***************************************************************************)
RECURSIVE TxBytes(_)
\* the hasher updates of the transaction loop, concatenated
TxBytes(txs) ==
  IF txs = <<>> THEN <<>>
  ELSE Head(txs).sender \o Head(txs).receiver \o ToString(Head(txs).amount)
         \o TxBytes(Tail(txs))

\* everything hasher.update() is fed, in call order
HasherInput(index, timestamp, transactions, previous_hash, nonce) ==
  ToString(index) \o ToString(timestamp) \o ToString(nonce)
    \o TxBytes(transactions) \o previous_hash

\* number of hexadecimal characters of a digest (64 for SHA-256, scaled)
HashLen == 5

HashMod == 16 * 16 * 16 * 16 * 16

RECURSIVE Sha256(_, _)
\* Sha256::update/finalize: a keyless compression of the byte stream to a
\* fixed-width value (stand-in: polynomial accumulation modulo 16^HashLen).
\* It sees only the concatenated bytes, so inputs that concatenate alike
\* digest alike; two different byte streams with one digest, which SHA-256
\* is taken not to produce, would show as a tampered chain that validates.
Sha256(h, bytes) ==
  IF bytes = <<>> THEN h
  ELSE Sha256((h * 131 + CharCode[Head(bytes)] * 7919 + 977) % HashMod, Tail(bytes))

RECURSIVE ToHex(_, _)
\* format!("{:x}", result): lower-case hexadecimal, zero-padded to full width
ToHex(v, width) ==
  IF width = 0 THEN <<>>
  ELSE Append(ToHex(v \div 16, width - 1), HexDigits[(v % 16) + 1])

calculate_hash(index, timestamp, transactions, previous_hash, nonce) ==
  ToHex(Sha256(7, HasherInput(index, timestamp, transactions, previous_hash, nonce)),
        HashLen)

(***************************************************************************)
(* The snapshot: serde_json::to_string_pretty / from_str over the derived  *)
(* Serialize/Deserialize of Blockchain, Block and Transaction.  A document *)
(* keeps the object/array structure; its leaves are JSON text: numbers as  *)
(* decimal literals, strings with '"' and '\' escaped.                     *)
(***************************************************************************)
RECURSIVE Escape_QuoteOnly(_)
\* an encoder that escapes '"' but not '\'
Escape_QuoteOnly(s) ==
  IF s = <<>> THEN <<>>
  ELSE (IF Head(s) = "\"" THEN <<"\\", Head(s)>> ELSE <<Head(s)>>)
         \o Escape_QuoteOnly(Tail(s))

RECURSIVE Escape(_)
Escape(s) ==
  IF s = <<>> THEN <<>>
  ELSE (IF Head(s) = "\"" \/ Head(s) = "\\" THEN <<"\\", Head(s)>> ELSE <<Head(s)>>)
         \o Escape(Tail(s))

RECURSIVE UnescapeOk(_)
\* a string literal's content is well formed: no bare '"', no dangling '\'
UnescapeOk(s) ==
  IF s = <<>> THEN TRUE
  ELSE IF Head(s) = "\\"
       THEN Len(s) >= 2 /\ (s[2] = "\"" \/ s[2] = "\\") /\ UnescapeOk(Tail(Tail(s)))
       ELSE Head(s) # "\"" /\ UnescapeOk(Tail(s))

RECURSIVE Unescape(_)
Unescape(s) ==
  IF s = <<>> THEN <<>>
  ELSE IF Head(s) = "\\" THEN <<s[2]>> \o Unescape(Tail(Tail(s)))
       ELSE <<Head(s)>> \o Unescape(Tail(s))

\* a JSON number accepted for an unsigned field of the given width
JsonUIntOk(s, max) ==
  /\ s # <<>>
  /\ AllDigits(s)
  /\ (Len(s) = 1 \/ Head(s) # "0")
  /\ ParseDigits(s, 0, max) <= max

SerializeTx(tx) ==
  [sender |-> Escape(tx.sender), receiver |-> Escape(tx.receiver),
   amount |-> ToString(tx.amount)]

SerializeBlock(b) ==
  [index |-> ToString(b.index), timestamp |-> ToString(b.timestamp),
   transactions |-> [k \in 1..Len(b.transactions) |-> SerializeTx(b.transactions[k])],
   previous_hash |-> Escape(b.previous_hash), hash |-> Escape(b.hash),
   nonce |-> ToString(b.nonce)]

\* serde_json::to_string_pretty(&self)
to_string_pretty(chain) == [i \in 1..Len(chain) |-> SerializeBlock(chain[i])]

TxDecodable(t) ==
  UnescapeOk(t.sender) /\ UnescapeOk(t.receiver) /\ JsonUIntOk(t.amount, U32Max)

BlockDecodable(d) ==
  /\ JsonUIntOk(d.index, U64Max)
  /\ JsonUIntOk(d.timestamp, U128Max)
  /\ \A k \in 1..Len(d.transactions) : TxDecodable(d.transactions[k])
  /\ UnescapeOk(d.previous_hash)
  /\ UnescapeOk(d.hash)
  /\ JsonUIntOk(d.nonce, U64Max)

DeserializeTx(t) ==
  [sender |-> Unescape(t.sender), receiver |-> Unescape(t.receiver),
   amount |-> ParseDigits(t.amount, 0, U32Max)]

DeserializeBlock(d) ==
  [index |-> ParseDigits(d.index, 0, U64Max),
   timestamp |-> ParseDigits(d.timestamp, 0, U128Max),
   transactions |-> [k \in 1..Len(d.transactions) |-> DeserializeTx(d.transactions[k])],
   previous_hash |-> Unescape(d.previous_hash), hash |-> Unescape(d.hash),
   nonce |-> ParseDigits(d.nonce, 0, U64Max)]

\* serde_json::from_str::<Blockchain>(&data) is Ok
from_str_ok(doc) == \A i \in 1..Len(doc) : BlockDecodable(doc[i])

\* the value of serde_json::from_str::<Blockchain>(&data) when it is Ok
from_str(doc) == [i \in 1..Len(doc) |-> DeserializeBlock(doc[i])]

(***************************************************************************)
(* The file blockchain.json: absent, unreadable, or text.  Text that is no *)
(* complete JSON document (truncated, garbage) has complete = FALSE.       *)
(***************************************************************************)
NoFile == [kind |-> "absent", complete |-> FALSE, doc |-> <<>>]

UnreadableFile == [kind |-> "unreadable", complete |-> FALSE, doc |-> <<>>]

TruncatedFile == [kind |-> "text", complete |-> FALSE, doc |-> <<>>]

TextFile(doc) == [kind |-> "text", complete |-> TRUE, doc |-> doc]

\* a loader that answers a failed read with an empty Blockchain
load_from_file_EmptyOnMissing(f) ==
  IF f.kind # "text" THEN [ret |-> "some", blocks |-> <<>>]
  ELSE IF f.complete /\ from_str_ok(f.doc)
       THEN [ret |-> "some", blocks |-> from_str(f.doc)]
       ELSE [ret |-> "panic", blocks |-> <<>>]

\* Blockchain::load_from_file: "none" (read failed), "some" or "panic"
load_from_file(f) ==
  IF f.kind # "text" THEN [ret |-> "none", blocks |-> <<>>]
  ELSE IF f.complete /\ from_str_ok(f.doc)
       THEN [ret |-> "some", blocks |-> from_str(f.doc)]
       ELSE [ret |-> "panic", blocks |-> <<>>]

\* a save that writes the newest block only
save_to_file_LastOnly(chain) ==
  TextFile(to_string_pretty(IF chain = <<>> THEN <<>> ELSE <<chain[Len(chain)]>>))

\* what Blockchain::save_to_file leaves in the file when fs::write succeeds
save_to_file(chain) == TextFile(to_string_pretty(chain))

(***************************************************************************)
(* Blockchain::is_chain_valid.                                             *)
(***************************************************************************)
BlockHash(b) ==
  calculate_hash(b.index, b.timestamp, b.transactions, b.previous_hash, b.nonce)

\* a validator that also asks each block for the leading zeros of mining
is_chain_valid_ChecksWork(chain) ==
  \A i \in 2..Len(chain) :
    /\ chain[i].hash = BlockHash(chain[i])
    /\ chain[i].previous_hash = chain[i - 1].hash
    /\ StartsWith(chain[i].hash, Repeat0(DIFFICULTY))

\* a validator whose loop starts at the genesis block and checks its digest
is_chain_valid_FromGenesis(chain) ==
  /\ \A i \in 1..Len(chain) : chain[i].hash = BlockHash(chain[i])
  /\ \A i \in 2..Len(chain) : chain[i].previous_hash = chain[i - 1].hash

\* a validator whose loop stops one block short of the end
is_chain_valid_SkipLast(chain) ==
  \A i \in 2..(Len(chain) - 1) :
    /\ chain[i].hash = BlockHash(chain[i])
    /\ chain[i].previous_hash = chain[i - 1].hash

is_chain_valid(chain) ==
  \A i \in 2..Len(chain) :
    /\ chain[i].hash = BlockHash(chain[i])
    /\ chain[i].previous_hash = chain[i - 1].hash

(***************************************************************************)
(* State.                                                                  *)
(*   pc         where main is: "boot" (before line 153), "genesis" or      *)
(*              "adding" (inside the mining loop of Block::new, called     *)
(*              from create_genesis_block or add_block), "loop" (waiting   *)
(*              for a command), "exited", "panicked"                       *)
(*   blocks     Blockchain::blocks of the chain main owns                  *)
(*   file       blockchain.json                                            *)
(*   clock      SystemTime::now() in milliseconds                          *)
(*   job        the locals of the running Block::new, <<>> when none runs  *)
(*   difficulty DIFFICULTY, fixed when the program is built                *)
(*   line       the words of the command line read last                    *)
(*   out        what the command being handled has printed last            *)
(*   origin     how main obtained the chain: "none", "new" or "loaded"     *)
(*   built      every block Block::new has returned so far                 *)
(***************************************************************************)
VARIABLES pc, blocks, file, clock, job, difficulty, line, out, origin, built

vars == <<pc, blocks, file, clock, job, difficulty, line, out, origin, built>>

Tx(s, r, a) == [sender |-> s, receiver |-> r, amount |-> a]

Blk(i, ts, txs, prev, h, n) ==
  [index |-> i, timestamp |-> ts, transactions |-> txs, previous_hash |-> prev,
   hash |-> h, nonce |-> n]

\* a block whose stored hash is the digest of its other fields
Sealed(i, ts, txs, prev, n) == Blk(i, ts, txs, prev, calculate_hash(i, ts, txs, prev, n), n)

(***************************************************************************)
(* Inputs: the words of the add command and the files the program may find *)
(* when it starts.                                                         *)
(***************************************************************************)
\* add lines of four words: some whose amount parses as u32, some whose
\* amount does not
AddLines ==
  { <<"add", <<"a">>, <<"b">>, <<"5">>>>,
    <<"add", <<"a", "b">>, <<"\"">>, <<"+", "1", "2">>>>,
    <<"add", <<"b">>, <<"a", "\\">>, <<"0", "0">>>>,
    <<"add", <<"a">>, <<"b">>, <<"x">>>>,
    <<"add", <<"a">>, <<"b">>, <<"-", "1">>>>,
    <<"add", <<"b">>, <<"a">>, ToString(U32Max + 1)>> }

\* lines no arm but the last matches
OtherLines == { <<>>, <<"add", <<"a">>, <<"b">>>>, <<"quit">> }

\* the ["add", sender, receiver, amount] arm is taken and the amount parses
WellFormedAdd(l) == Len(l) = 4 /\ l[1] = "add" /\ ParseU32(l[4]).ok

SnapGenesis == Sealed(0, 5, <<>>, <<"0">>, 0)

SnapTx == <<Tx(<<"a", "\"">>, <<"\\", "b">>, 12)>>

\* chains a snapshot found at start may hold
SnapshotChains ==
  { <<>>,
    <<SnapGenesis>>,
    <<SnapGenesis, Sealed(1, 6, SnapTx, SnapGenesis.hash, 3)>>,
    <<SnapGenesis, Sealed(1, 6, SnapTx, Repeat0(HashLen), 3)>>,
    <<SnapGenesis, [Sealed(1, 6, SnapTx, SnapGenesis.hash, 3) EXCEPT !.nonce = 4]>>,
    <<Sealed(U64Max, 6, <<>>, <<"0">>, U64Max)>>,
    <<Blk(7, 6, SnapTx, <<"1">>, Repeat0(HashLen), 2),
      Sealed(3, 5, SnapTx, Repeat0(HashLen), 3)>> }

\* documents that are JSON but not a Blockchain: a leaf of the wrong form
BadDocs ==
  { <<[SerializeBlock(SnapGenesis) EXCEPT !.nonce = <<"-", "1">>]>>,
    <<[SerializeBlock(SnapGenesis) EXCEPT !.index = ToString(U64Max + 1)]>>,
    <<[SerializeBlock(SnapGenesis) EXCEPT !.hash = <<"\"">>]>> }

InitFiles ==
  {NoFile, UnreadableFile, TruncatedFile}
    \cup { TextFile(d) : d \in BadDocs }
    \cup { save_to_file(c) : c \in SnapshotChains }

Init ==
  /\ pc = "boot"
  /\ blocks = <<>>
  /\ file \in InitFiles
  /\ clock = ClockStart
  /\ job = <<>>
  /\ difficulty \in Difficulties
  /\ line = <<>>
  /\ out = ""
  /\ origin = "none"
  /\ built = {}

(***************************************************************************)
(* Block::new, lines 27-49.                                                *)
(***************************************************************************)
\* a builder whose search starts at nonce 1
BlockNewEntry_NonceFromOne(index, transactions, previous_hash, now) ==
  [index |-> index, timestamp |-> now, transactions |-> transactions,
   previous_hash |-> previous_hash, nonce |-> 1,
   hash |-> calculate_hash(index, now, transactions, previous_hash, 1)]

\* lines 28-35: nonce = 0, the timestamp read once, the first digest
BlockNewEntry(index, transactions, previous_hash, now) ==
  [index |-> index, timestamp |-> now, transactions |-> transactions,
   previous_hash |-> previous_hash, nonce |-> 0,
   hash |-> calculate_hash(index, now, transactions, previous_hash, 0)]

\* line 36: the loop condition is false, the search is over
Mined(j) == StartsWith(j.hash, Repeat0(difficulty))

\* a loop body that adds to the nonce but keeps the digest it had
BlockNewTurn_StaleHash(j, n) == [j EXCEPT !.nonce = n]

\* lines 37-38: one turn of the loop with the nonce n it moves to
BlockNewTurn(j, n) ==
  [j EXCEPT !.nonce = n,
            !.hash = calculate_hash(j.index, j.timestamp, j.transactions,
                                    j.previous_hash, n)]

\* a builder that returns the block with the nonce it started from
BlockNewResult_NonceReset(j) ==
  Blk(j.index, j.timestamp, j.transactions, j.previous_hash, j.hash, 0)

\* lines 41-48: the block returned
BlockNewResult(j) ==
  Blk(j.index, j.timestamp, j.transactions, j.previous_hash, j.hash, j.nonce)

Mining == pc \in {"genesis", "adding"}

\* one failed attempt: nonce += 1 and the digest again
MineStep ==
  /\ Mining
  /\ ~Mined(job[1])
  /\ job[1].nonce < U64Max
  /\ job' = <<BlockNewTurn(job[1], job[1].nonce + 1)>>
  /\ UNCHANGED <<pc, blocks, file, clock, difficulty, line, out, origin, built>>

\* nonce += 1 at u64::MAX with overflow checks off: the nonce wraps to 0
MineWrap ==
  /\ Mining
  /\ ~Mined(job[1])
  /\ job[1].nonce = U64Max
  /\ job' = <<BlockNewTurn(job[1], 0)>>
  /\ UNCHANGED <<pc, blocks, file, clock, difficulty, line, out, origin, built>>

\* nonce += 1 at u64::MAX with overflow checks on: the thread panics
MineOverflowPanic ==
  /\ Mining
  /\ ~Mined(job[1])
  /\ job[1].nonce = U64Max
  /\ pc' = "panicked"
  /\ job' = <<>>
  /\ UNCHANGED <<blocks, file, clock, difficulty, line, out, origin, built>>

(***************************************************************************)
(* main, lines 152-153: load_from_file(..).unwrap_or_else(Blockchain::new) *)
(***************************************************************************)
\* the file reads and decodes
LoadSome ==
  /\ pc = "boot"
  /\ load_from_file(file).ret = "some"
  /\ blocks' = load_from_file(file).blocks
  /\ origin' = "loaded"
  /\ pc' = "loop"
  /\ UNCHANGED <<file, clock, job, difficulty, line, out, built>>

\* the file does not read: Blockchain::new() starts building the genesis block
LoadNone ==
  /\ pc = "boot"
  /\ load_from_file(file).ret = "none"
  /\ job' = <<BlockNewEntry(0, <<>>, <<"0">>, clock)>>
  /\ origin' = "new"
  /\ pc' = "genesis"
  /\ UNCHANGED <<blocks, file, clock, difficulty, line, out, built>>

\* the file reads but does not decode: from_str(..).unwrap() panics
LoadPanic ==
  /\ pc = "boot"
  /\ load_from_file(file).ret = "panic"
  /\ pc' = "panicked"
  /\ UNCHANGED <<blocks, file, clock, job, difficulty, line, out, origin, built>>

\* create_genesis_block, lines 80-81: the mined genesis block is pushed
GenesisDone ==
  /\ pc = "genesis"
  /\ Mined(job[1])
  /\ blocks' = Append(blocks, BlockNewResult(job[1]))
  /\ built' = built \cup {BlockNewResult(job[1])}
  /\ job' = <<>>
  /\ pc' = "loop"
  /\ UNCHANGED <<file, clock, difficulty, line, out, origin>>

(***************************************************************************)
(* The command loop, lines 163-201.                                        *)
(***************************************************************************)
\* an add_block that links the new block to the last block's previous_hash
AddBlockEntry_StaleLink(chain, transactions, now) ==
  BlockNewEntry(chain[Len(chain)].index + 1, transactions,
                chain[Len(chain)].previous_hash, now)

\* add_block lines 85-87: Block::new entered with the last block's index + 1
\* and the last block's hash
AddBlockEntry(chain, transactions, now) ==
  BlockNewEntry(chain[Len(chain)].index + 1, transactions, chain[Len(chain)].hash, now)

\* ["add", sender, receiver, amount] with an amount that parses, up to the
\* first digest of Block::new (lines 175-181, 85-87, 28-35)
CmdAdd ==
  /\ pc = "loop"
  /\ Len(blocks) < MaxBlocks
  /\ \E w \in AddLines :
       /\ ParseU32(w[4]).ok
       /\ blocks # <<>>
       /\ blocks[Len(blocks)].index < U64Max
       /\ line' = w
       /\ job' = <<AddBlockEntry(blocks, <<Tx(w[2], w[3], ParseU32(w[4]).val)>>, clock)>>
  /\ pc' = "adding"
  /\ out' = ""
  /\ UNCHANGED <<blocks, file, clock, difficulty, origin, built>>

\* the same on an empty chain: self.blocks.last().unwrap() panics
CmdAddEmptyPanic ==
  /\ pc = "loop"
  /\ blocks = <<>>
  /\ \E w \in AddLines : ParseU32(w[4]).ok /\ line' = w
  /\ pc' = "panicked"
  /\ out' = ""
  /\ UNCHANGED <<blocks, file, clock, job, difficulty, origin, built>>

\* previous_block.index + 1 at u64::MAX: panics with overflow checks on,
\* wraps to 0 with overflow checks off
CmdAddIndexOverflow ==
  /\ pc = "loop"
  /\ Len(blocks) < MaxBlocks
  /\ blocks # <<>>
  /\ blocks[Len(blocks)].index = U64Max
  /\ \E w \in AddLines :
       /\ ParseU32(w[4]).ok
       /\ line' = w
       /\ \/ /\ pc' = "panicked"
             /\ job' = job
          \/ /\ pc' = "adding"
             /\ job' = <<BlockNewEntry(0, <<Tx(w[2], w[3], ParseU32(w[4]).val)>>,
                                       blocks[Len(blocks)].hash, clock)>>
  /\ out' = ""
  /\ UNCHANGED <<blocks, file, clock, difficulty, origin, built>>

\* add_block line 88, then lines 182-183: the block is pushed, the message
\* printed and the chain written
AddDone ==
  /\ pc = "adding"
  /\ Mined(job[1])
  /\ blocks' = Append(blocks, BlockNewResult(job[1]))
  /\ built' = built \cup {BlockNewResult(job[1])}
  /\ job' = <<>>
  /\ out' = "Block mined and added successfully!"
  /\ file' = save_to_file(blocks')
  /\ pc' = "loop"
  /\ UNCHANGED <<clock, difficulty, line, origin>>

\* the same when fs::write fails: expect("Unable to save blockchain") panics;
\* the file is as it was, or was truncated before the failure
AddDoneSaveFails ==
  /\ pc = "adding"
  /\ Mined(job[1])
  /\ blocks' = Append(blocks, BlockNewResult(job[1]))
  /\ built' = built \cup {BlockNewResult(job[1])}
  /\ job' = <<>>
  /\ out' = "Block mined and added successfully!"
  /\ file' \in {file, TruncatedFile}
  /\ pc' = "panicked"
  /\ UNCHANGED <<clock, difficulty, line, origin>>

\* an add arm that takes an amount that does not parse as 0
CmdAddBadAmount_AsZero ==
  /\ pc = "loop"
  /\ Len(blocks) < MaxBlocks
  /\ blocks # <<>>
  /\ blocks[Len(blocks)].index < U64Max
  /\ \E w \in AddLines :
       /\ ~ParseU32(w[4]).ok
       /\ line' = w
       /\ job' = <<AddBlockEntry(blocks, <<Tx(w[2], w[3], 0)>>, clock)>>
  /\ pc' = "adding"
  /\ out' = ""
  /\ UNCHANGED <<blocks, file, clock, difficulty, origin, built>>

\* ["add", _, _, amount] with an amount that does not parse (line 185)
CmdAddBadAmount ==
  /\ pc = "loop"
  /\ \E w \in AddLines : ~ParseU32(w[4]).ok /\ line' = w
  /\ out' = "Invalid amount"
  /\ UNCHANGED <<pc, blocks, file, clock, job, difficulty, origin, built>>

\* ["view"] (line 188)
CmdView ==
  /\ pc = "loop"
  /\ line' = <<"view">>
  /\ out' = "Blockchain:"
  /\ UNCHANGED <<pc, blocks, file, clock, job, difficulty, origin, built>>

\* ["validate"] (lines 189-191)
CmdValidate ==
  /\ pc = "loop"
  /\ line' = <<"validate">>
  /\ out' = IF is_chain_valid(blocks) THEN "Blockchain valid? true"
                                      ELSE "Blockchain valid? false"
  /\ UNCHANGED <<pc, blocks, file, clock, job, difficulty, origin, built>>

\* an exit arm that writes the chain before it leaves
CmdExit_Saves ==
  /\ pc = "loop"
  /\ line' = <<"exit">>
  /\ out' = "Goodbye!"
  /\ file' = TextFile(to_string_pretty(blocks))
  /\ pc' = "exited"
  /\ UNCHANGED <<blocks, clock, job, difficulty, origin, built>>

\* ["exit"] (lines 192-195)
CmdExit ==
  /\ pc = "loop"
  /\ line' = <<"exit">>
  /\ out' = "Goodbye!"
  /\ pc' = "exited"
  /\ UNCHANGED <<blocks, file, clock, job, difficulty, origin, built>>

\* any other line (lines 196-198)
CmdInvalid ==
  /\ pc = "loop"
  /\ line' \in OtherLines
  /\ out' = "Invalid command."
  /\ UNCHANGED <<pc, blocks, file, clock, job, difficulty, origin, built>>

\* time passes
Tick ==
  /\ clock < MaxClock
  /\ pc \notin {"exited", "panicked"}
  /\ clock' = clock + 1
  /\ UNCHANGED <<pc, blocks, file, job, difficulty, line, out, origin, built>>

Next ==
  \/ LoadSome
  \/ LoadNone
  \/ LoadPanic
  \/ MineStep
  \/ MineWrap
  \/ MineOverflowPanic
  \/ GenesisDone
  \/ CmdAdd
  \/ CmdAddEmptyPanic
  \/ CmdAddIndexOverflow
  \/ AddDone
  \/ AddDoneSaveFails
  \/ CmdAddBadAmount
  \/ CmdView
  \/ CmdValidate
  \/ CmdExit
  \/ CmdInvalid
  \/ Tick

Spec == Init /\ [][Next]_vars

\* the next thing the thread does inside Block::new or on its return
Running ==
  \/ MineStep
  \/ MineWrap
  \/ MineOverflowPanic
  \/ GenesisDone
  \/ AddDone
  \/ AddDoneSaveFails

\* the one thread of the program keeps running: a mining loop that can take
\* a turn takes it, and a finished Block::new returns to its caller, which
\* pushes the block
FairSpec == Spec /\ WF_vars(Running)

TypeOK == pc \in {"boot", "genesis", "adding", "loop", "exited", "panicked"}

(***************************************************************************)
(* Properties.                                                             *)
(***************************************************************************)
Last(chain) == chain[Len(chain)]

\* the chain came from Blockchain::new() and add_block calls only
FromNew == origin = "new"

\* add_block has just pushed a block (line 182 printed its message)
JustAppended == out = "Block mined and added successfully!"

\* C1: every chain made by Blockchain::new() and any number of add_block
\* calls passes is_chain_valid.
C1_NewChainsValid == FromNew => is_chain_valid(blocks)

C1_Witness ==
  /\ FromNew
  /\ Len(blocks) >= 3
  /\ difficulty >= 1
  /\ \E i \in 2..Len(blocks) : blocks[i].nonce > 0
  /\ is_chain_valid(blocks)

\* texts a tampered hash or previous_hash is replaced by
AltHashes(chain) ==
  { chain[k].hash : k \in 1..Len(chain) }
    \cup { chain[k].previous_hash : k \in 1..Len(chain) }
    \cup { Repeat0(HashLen), <<>>, <<"0">> }
    \cup { [chain[k].hash EXCEPT ![HashLen] = IF @ = "f" THEN "0" ELSE "f"] :
             k \in 1..Len(chain) }

\* texts a tampered sender or receiver is replaced by
AltNames ==
  { <<>>, <<"a">>, <<"b">>, <<"a", "b">>, <<"b", "a">>, <<"\"">>, <<"a", "\\">>,
    <<"5">>, <<"a", "5">>, <<"1">>, <<"0">> }

\* the blocks that differ from b in exactly one stored field other than the
\* timestamp
OneFieldChanged(b, chain) ==
  { [b EXCEPT !.hash = h] : h \in AltHashes(chain) \ {b.hash} }
    \cup { [b EXCEPT !.previous_hash = h] : h \in AltHashes(chain) \ {b.previous_hash} }
    \cup { [b EXCEPT !.index = n] : n \in (0..U64Max) \ {b.index} }
    \cup { [b EXCEPT !.nonce = n] : n \in (0..U64Max) \ {b.nonce} }
    \cup UNION { { [b EXCEPT !.transactions[k].sender = x] :
                     x \in AltNames \ {b.transactions[k].sender} } :
                 k \in 1..Len(b.transactions) }
    \cup UNION { { [b EXCEPT !.transactions[k].receiver = x] :
                     x \in AltNames \ {b.transactions[k].receiver} } :
                 k \in 1..Len(b.transactions) }
    \cup UNION { { [b EXCEPT !.transactions[k].amount = x] :
                     x \in (0..U32Max) \ {b.transactions[k].amount} } :
                 k \in 1..Len(b.transactions) }

\* the chains that differ from chain in one field of one non-genesis block
Tampered(chain) ==
  UNION { { [chain EXCEPT ![i] = t] : t \in OneFieldChanged(chain[i], chain) } :
          i \in 2..Len(chain) }

\* C2: changing one stored field (hash, previous_hash, index, nonce, or a
\* transaction's sender, receiver or amount) of one non-genesis block of a
\* chain made by new() and appends makes is_chain_valid false.
\* (every such chain with a non-genesis block is in memory when the add
\* command that completed it has printed its message and returned to the loop)
C2_TamperDetected ==
  (FromNew /\ JustAppended /\ pc = "loop") => \A c \in Tampered(blocks) : ~is_chain_valid(c)

C2_Witness ==
  /\ FromNew
  /\ JustAppended
  /\ Len(blocks) >= 3
  /\ \E c \in Tampered(blocks) :
       /\ c[Len(c)].transactions[1].amount # Last(blocks).transactions[1].amount
       /\ ~is_chain_valid(c)

\* C3: with difficulty d >= 1 every block Block::new returned has a hash that
\* starts with d '0' characters and is the digest of its stored fields, and
\* no nonce below the stored one gives a digest that starts with d '0's.
C3_MinedBlocks ==
  difficulty >= 1 =>
    \A b \in built :
      /\ StartsWith(b.hash, Repeat0(difficulty))
      /\ b.hash = BlockHash(b)
      /\ \A n \in 0..(b.nonce - 1) :
           ~StartsWith(calculate_hash(b.index, b.timestamp, b.transactions,
                                      b.previous_hash, n),
                       Repeat0(difficulty))

C3_Witness ==
  /\ difficulty >= 1
  /\ \E b \in built : b.nonce >= 2 /\ b.index >= 1
  /\ \E b \in built : b.nonce = 0

\* C4: a chain made by new() and appends starts with a block of index 0, no
\* transactions and previous_hash "0"; every block's index is its position;
\* every later block links to its predecessor's hash and stores the digest
\* of its own fields.
C4_Structure ==
  (FromNew /\ blocks # <<>>) =>
    /\ blocks[1].index = 0
    /\ blocks[1].transactions = <<>>
    /\ blocks[1].previous_hash = <<"0">>
    /\ \A i \in 1..Len(blocks) : blocks[i].index = i - 1
    /\ \A i \in 2..Len(blocks) :
         /\ blocks[i].previous_hash = blocks[i - 1].hash
         /\ blocks[i].hash = BlockHash(blocks[i])

C4_Witness ==
  /\ FromNew
  /\ Len(blocks) >= 3
  /\ blocks[3].index = 2
  /\ blocks[3].previous_hash = blocks[2].hash

\* C5: a completed append makes the chain one block longer, the new last
\* block has the old last index + 1, the old last hash as previous_hash and
\* the given transactions, and the blocks stored before are unchanged; the
\* chain changes in no other way once main holds it, in particular not while
\* a block is being mined.
C5_AppendOnly ==
  [][(pc \in {"loop", "adding"} /\ blocks' # blocks) =>
       /\ pc = "adding"
       /\ Mined(job[1])
       /\ Len(blocks') = Len(blocks) + 1
       /\ SubSeq(blocks', 1, Len(blocks)) = blocks
       /\ Last(blocks').index = Last(blocks).index + 1
       /\ Last(blocks').previous_hash = Last(blocks).hash
       /\ Last(blocks').transactions = job[1].transactions]_vars

\* C6: an add whose amount does not parse, an unrecognized line, view and
\* validate leave the chain and the snapshot file as they were, and the loop
\* goes on to the next command.
C6_OnlyAddChanges ==
  [][(pc = "loop" /\ ~WellFormedAdd(line') /\ line' # <<"exit">>) =>
       (blocks' = blocks /\ file' = file /\ job' = job /\ pc' = "loop")]_vars

C6_Witness ==
  /\ pc = "loop"
  /\ line = <<"add", <<"b">>, <<"a">>, ToString(U32Max + 1)>>
  /\ out = "Invalid amount"
  /\ Len(blocks) >= 2
  /\ file = save_to_file(blocks)

\* C7: loading what save wrote gives back the chain, equal in every field of
\* every block and transaction and in the same order, and so with the same
\* is_chain_valid verdict.
C7_RoundTrip ==
  /\ load_from_file(save_to_file(blocks)).ret = "some"
  /\ load_from_file(save_to_file(blocks)).blocks = blocks
  /\ is_chain_valid(load_from_file(save_to_file(blocks)).blocks) = is_chain_valid(blocks)

C7_Witness ==
  /\ Len(blocks) >= 3
  /\ file = save_to_file(blocks)
  /\ \E i \in 1..Len(blocks) :
       /\ blocks[i].transactions # <<>>
       /\ blocks[i].transactions[1].receiver = <<"a", "\\">>
  /\ \E i \in 1..Len(blocks) :
       /\ blocks[i].transactions # <<>>
       /\ blocks[i].transactions[1].sender = <<"a", "\"">>
  /\ load_from_file(file).blocks = blocks

\* C8: the file is written when an append has completed and at no other
\* time: an add command that completes leaves the file equal to the chain in
\* memory, and exit ends the loop without writing.
C8_SaveAfterAppend ==
  [][/\ (file' # file => (pc = "adding" /\ blocks' = Append(blocks, Last(blocks'))))
     /\ ((pc = "adding" /\ pc' = "loop") => file' = save_to_file(blocks'))
     /\ (pc' = "exited" => file' = file)]_vars

C8_Witness ==
  /\ pc = "exited"
  /\ Len(blocks) >= 2
  /\ FromNew
  /\ file = save_to_file(blocks)

\* C9: when the snapshot file is absent or cannot be read, main starts with
\* the chain Blockchain::new() makes: one genesis block with index 0, no
\* transactions and previous_hash "0".
C9_MissingFileIsNew ==
  (file.kind # "text" /\ pc = "loop") =>
    /\ FromNew
    /\ Len(blocks) = 1
    /\ blocks[1] \in built
    /\ blocks[1].index = 0
    /\ blocks[1].transactions = <<>>
    /\ blocks[1].previous_hash = <<"0">>

C9_Witness ==
  /\ file.kind = "unreadable"
  /\ pc = "loop"
  /\ Len(blocks) = 1
  /\ blocks[1].nonce > 0

\* C10: when the snapshot file exists but does not decode, main goes on to
\* Blockchain::new() and the command loop instead of ending in a panic.
C10_UndecodableIsNew ==
  [][(pc = "boot" /\ pc' # "boot" /\ load_from_file(file).ret = "panic") =>
       pc' = "genesis"]_vars

\* every block after the first stores the digest of its own fields and the
\* hash of the block before it
Integrity(chain) ==
  \A i \in 2..Len(chain) :
    /\ chain[i].hash =
         ToHex(Sha256(7, HasherInput(chain[i].index, chain[i].timestamp,
                                     chain[i].transactions, chain[i].previous_hash,
                                     chain[i].nonce)),
               HashLen)
    /\ chain[i].previous_hash = chain[i - 1].hash

\* some block after the first has a hash without the leading zeros asked for
Unmined(chain) ==
  \E i \in 2..Len(chain) : ~StartsWith(chain[i].hash, Repeat0(difficulty))

\* the validate command has printed its verdict for the chain in memory
Validated == pc = "loop" /\ line = <<"validate">>

\* C11: validate does not look at proof of work: a chain whose later blocks
\* all store their own digest and their predecessor's hash is reported valid
\* also when one of those hashes lacks the leading zeros of the difficulty.
C11_NoWorkCheck ==
  (Validated /\ Integrity(blocks) /\ Unmined(blocks)) => out = "Blockchain valid? true"

C11_Witness ==
  /\ Validated
  /\ difficulty >= 1
  /\ Len(blocks) >= 2
  /\ Integrity(blocks)
  /\ Unmined(blocks)
  /\ out = "Blockchain valid? true"

\* C12: validate answers true exactly when every block after the first
\* stores its own digest and its predecessor's hash; the first block's
\* digest, its previous_hash and the indices are not looked at, so a chain of
\* no or one block is valid; and validate leaves the chain as it is.
C12_ValidateExactly ==
  [][(pc = "loop" /\ line' = <<"validate">>) =>
       /\ blocks' = blocks
       /\ out' = IF Integrity(blocks) THEN "Blockchain valid? true"
                                      ELSE "Blockchain valid? false"
       /\ (Len(blocks) <= 1 => out' = "Blockchain valid? true")]_vars

\* reported valid with a first block that has a wrong digest, no "0" as
\* previous_hash and indices that are not the positions
C12_Witness ==
  /\ Validated
  /\ out = "Blockchain valid? true"
  /\ Len(blocks) >= 3
  /\ blocks[1].hash # BlockHash(blocks[1])
  /\ blocks[1].previous_hash # <<"0">>
  /\ blocks[1].index # 0
  /\ blocks[2].index # 1

\* C13: the chain main holds, made fresh or decoded from a snapshot, always
\* has a block, so add_block always finds a last block.
C13_NeverEmpty == pc \in {"loop", "adding", "exited"} => blocks # <<>>

\* C14: inside one Block::new the timestamp is read once, before the first
\* digest; index, timestamp, transactions and previous_hash stay as they are
\* over all attempts; the nonce starts at 0 and grows by exactly 1 with each
\* failed attempt; the block returned stores the timestamp and the nonce of
\* the accepted digest.
C14_OneTimestamp ==
  [][/\ (job = <<>> /\ job' # <<>>) =>
          /\ job'[1].nonce = 0
          /\ job'[1].timestamp = clock
          /\ job'[1].hash = calculate_hash(job'[1].index, clock, job'[1].transactions,
                                           job'[1].previous_hash, 0)
     /\ (job # <<>> /\ job' # <<>>) =>
          /\ job'[1].index = job[1].index
          /\ job'[1].timestamp = job[1].timestamp
          /\ job'[1].transactions = job[1].transactions
          /\ job'[1].previous_hash = job[1].previous_hash
          /\ (job' # job => (~Mined(job[1]) /\ job'[1].nonce = job[1].nonce + 1))
     /\ (job # <<>> /\ blocks' # blocks) =>
          /\ Last(blocks').timestamp = job[1].timestamp
          /\ Last(blocks').nonce = job[1].nonce
          /\ Last(blocks').hash = job[1].hash
          /\ Last(blocks').hash = BlockHash(Last(blocks'))]_vars

\* C16: at difficulty 0 every digest is accepted: Block::new computes one
\* digest, never adds to the nonce and returns a block with nonce 0 and the
\* digest at nonce 0.
C16_NoMiningAtZero ==
  difficulty = 0 =>
    /\ job # <<>> =>
         /\ job[1].nonce = 0
         /\ Mined(job[1])
         /\ job[1].hash = calculate_hash(job[1].index, job[1].timestamp,
                                         job[1].transactions, job[1].previous_hash, 0)
    /\ \A b \in built :
         /\ b.nonce = 0
         /\ b.hash = calculate_hash(b.index, b.timestamp, b.transactions,
                                    b.previous_hash, 0)

C16_Witness ==
  /\ difficulty = 0
  /\ Cardinality(built) >= 3
  /\ \E b \in built : ~StartsWith(b.hash, <<"0">>)
  /\ Len(blocks) >= 3

\* C17: an append keeps the verdict of validate, for valid chains and for
\* invalid ones alike, chains loaded from a snapshot included.
C17_VerdictKept ==
  [][(pc = "adding" /\ blocks' # blocks) =>
       /\ blocks' = Append(blocks, Last(blocks'))
       /\ is_chain_valid(blocks') = is_chain_valid(blocks)]_vars

C17_Witness ==
  /\ JustAppended
  /\ origin = "loaded"
  /\ Len(blocks) >= 3
  /\ ~is_chain_valid(blocks)
  /\ ~is_chain_valid(SubSeq(blocks, 1, Len(blocks) - 1))
  /\ Last(blocks).hash = BlockHash(Last(blocks))

\* some nonce of the representable range gives the fields of j a digest with
\* the leading zeros asked for
HasNonce(j) ==
  \E n \in 0..U64Max :
    StartsWith(ToHex(Sha256(7, HasherInput(j.index, j.timestamp, j.transactions,
                                           j.previous_hash, n)), HashLen),
               Repeat0(difficulty))

\* C15: the search of Block::new ends exactly when some nonce of the
\* representable range meets the difficulty for the fixed fields: then the
\* caller gets its block and pushes one block; when there is none, no block
\* is ever returned and the call leaves the chain as it is.
C15_SearchEnds ==
  /\ [][(job # <<>> /\ (blocks' # blocks \/ built' # built \/ pc' \notin {pc, "panicked"})) =>
          HasNonce(job[1])]_vars
  /\ [][(job # <<>> /\ job' = <<>> /\ HasNonce(job[1])) =>
          /\ Len(blocks') = Len(blocks) + 1
          /\ blocks' = Append(blocks, Last(blocks'))
          /\ Last(blocks') \in built'
          /\ StartsWith(Last(blocks').hash, Repeat0(difficulty))]_vars
  /\ (job # <<>> /\ HasNonce(job[1])) ~> (job = <<>>)

C15_Witness ==
  /\ pc = "adding"
  /\ ~HasNonce(job[1])
  /\ job[1].nonce = U64Max
  /\ difficulty <= MaxDifficulty
  /\ Len(blocks) >= 1

\* the blocks that differ from b by moving characters between index and
\* timestamp, or one character between the first transaction's sender and
\* receiver
Resplit(b) ==
  ({ [b EXCEPT !.index = i, !.timestamp = t] : i \in 0..U64Max, t \in 0..U128Max }
     \cup (IF b.transactions # <<>> /\ b.transactions[1].sender # <<>>
           THEN { [b EXCEPT
                     !.transactions[1].sender =
                        SubSeq(@, 1, Len(@) - 1),
                     !.transactions[1].receiver =
                        <<b.transactions[1].sender[Len(b.transactions[1].sender)]>> \o @] }
           ELSE {}))
    \ {b}

BlockInput(b) ==
  HasherInput(b.index, b.timestamp, b.transactions, b.previous_hash, b.nonce)

\* C18: blocks that differ in index, timestamp, nonce, transactions or
\* previous_hash feed the hasher different byte sequences; moving characters
\* from one field to the next does not keep the hasher input.
C18_InputInjective ==
  \A i \in 1..Len(blocks) :
    \A v \in Resplit(blocks[i]) : BlockInput(v) # BlockInput(blocks[i])

\* the chain the snapshot file holds
Persisted == from_str(file.doc)

\* C19: with writes that are atomic (the file holds a whole document), once
\* the snapshot was loaded or written the chain in the file is a prefix of
\* the chain in memory and at most one block shorter; after a failed save
\* the file holds the chain as it was before the last append.
C19_FileIsPrefix ==
  (origin # "none" /\ file.kind = "text" /\ file.complete /\ from_str_ok(file.doc)) =>
    /\ Len(Persisted) <= Len(blocks)
    /\ Len(blocks) <= Len(Persisted) + 1
    /\ SubSeq(blocks, 1, Len(Persisted)) = Persisted
    /\ (pc = "panicked" /\ JustAppended) =>
         Persisted = SubSeq(blocks, 1, Len(blocks) - 1)

C19_Witness ==
  /\ pc = "panicked"
  /\ JustAppended
  /\ file.kind = "text"
  /\ file.complete
  /\ Len(Persisted) >= 2
  /\ Len(blocks) = Len(Persisted) + 1
  /\ origin = "new"

====
